---- MODULE Spec2Model ----
(***************************************************************************)
(* Basemap acquisition and mosaic assembly pipeline                        *)
(* (src/basemaps_download.py, with the month arithmetic and mosaic names   *)
(* of src/mosaics_download.py).                                            *)
(*                                                                         *)
(* One process runs __main__: download_basemaps over the inventories       *)
(* (bounding box, then per window: mosaic lookup, paginated tile listing,  *)
(* tile downloads), then per inventory merge_quads for "pre" and "post"    *)
(* and download_dtm.  The catalog server, the filesystem and the raster    *)
(* library are the environment: every call into them either succeeds or    *)
(* raises, and the process can be terminated between any two steps.  A     *)
(* terminated or finished process can be started again on the same disk.   *)
(***************************************************************************)
EXTENDS Integers, Sequences, FiniteSets, TLC

\* ------------------------------------------------------------------ bounds
NInv == 2          \* inventories passed to download_basemaps
MaxPages == 3      \* longest continuation chain of the catalog
MaxItems == 2      \* most tile entries of a listing; tile ids are 1..MaxItems
MaxRuns == 2       \* process starts on the same disk
MaxFaults == 1     \* failures, missing mosaics and terminations in one behaviour
MaxDates == 2      \* longest event date list of an inventory

\* The years of the event dates of INVENTORIES.
FirstYear == 2018
LastYear == 2023

Invs == 1..NInv
Wins == 1..2
Tiles == 1..MaxItems
Tags == <<"pre", "post">>

\* ------------------------------------------------- TimeWindowCalculator
\* A previous month that does not roll the year over.
get_previous_month_no_rollover(month, year) == <<month - 1, year>>

\* basemaps_download.py: integer month arithmetic.
get_previous_month(month, year) ==
    IF month = 1 THEN <<12, year - 1>> ELSE <<month - 1, year>>

\* A next month that does not roll the year over.
get_next_month_no_rollover(month, year) == <<month + 1, year>>

get_next_month(month, year) ==
    IF month = 12 THEN <<1, year + 1>> ELSE <<month + 1, year>>

\* Strings are sequences of characters.
Digit == <<"0", "1", "2", "3", "4", "5", "6", "7", "8", "9">>

\* str(n) of a non-negative integer: its decimal digits, most significant first.
RECURSIVE str(_)
str(n) ==
    IF n < 10 THEN <<Digit[n + 1]>>
    ELSE str(n \div 10) \o <<Digit[(n % 10) + 1]>>

\* A format without padding.
fmt02_nopad(n) == str(n)

\* f"{n:02}": decimal digits, zero padded on the left to width 2.
fmt02(n) == IF Len(str(n)) < 2 THEN <<"0">> \o str(n) ELSE str(n)

\* mosaics_download.py: the same arithmetic, returning strings.
get_previous_month_str(month, year) ==
    LET prev_month == IF month = 1 THEN 12 ELSE month - 1
        prev_year  == IF month = 1 THEN year - 1 ELSE year
    IN  <<fmt02(prev_month), str(prev_year)>>

get_next_month_str(month, year) ==
    LET next_month == IF month = 12 THEN 1 ELSE month + 1
        next_year  == IF month = 12 THEN year + 1 ELSE year
    IN  <<fmt02(next_month), str(next_year)>>

\* basemaps_download.py: f"global_monthly_{y}_{m:02}_mosaic", y and m integers.
mosaic_name(y, m) ==
    <<"global_monthly_">> \o str(y) \o <<"_">> \o fmt02(m) \o <<"_mosaic">>

\* mosaics_download.py: f"global_monthly_{y}_{m}_mosaic", y and m strings.
mosaic_name_str(y, m) ==
    <<"global_monthly_">> \o y \o <<"_">> \o m \o <<"_mosaic">>

\* basemaps_download.py download_basemaps: the two windows of a date list,
\* each date a record [year, month, day].
windows(ds) ==
    LET before == get_previous_month(ds[1].month, ds[1].year)
        after  == get_next_month(ds[Len(ds)].month, ds[Len(ds)].year)
    IN  [pre   |-> before,
         post  |-> after,
         names |-> <<mosaic_name(before[2], before[1]),
                     mosaic_name(after[2], after[1])>>]

\* mosaics_download.py download_basemaps: the len(dates) == 1 branch and the
\* general branch, with the string month arithmetic.
windows_str(ds) ==
    LET before == IF Len(ds) = 1
                  THEN get_previous_month_str(ds[1].month, ds[1].year)
                  ELSE get_previous_month_str(ds[1].month, ds[1].year)
        after  == IF Len(ds) = 1
                  THEN get_next_month_str(ds[1].month, ds[1].year)
                  ELSE get_next_month_str(ds[Len(ds)].month, ds[Len(ds)].year)
    IN  [pre   |-> before,
         post  |-> after,
         names |-> <<mosaic_name_str(before[2], before[1]),
                     mosaic_name_str(after[2], after[1])>>]

\* ------------------------------------------------------------ the catalog
\* The tile entries the catalog can hold for an area, in the server's order
\* (an entry may repeat).  No code looks into a tile id, so the ids are named
\* in order of first appearance: entry k is an id seen before it or the next
\* unused one.
Catalogs ==
    {s \in UNION {[1..n -> Tiles] : n \in 0..MaxItems} :
        \A k \in 1..Len(s) :
            \/ s[k] = 1
            \/ \E j \in 1..(k - 1) : s[j] >= s[k] - 1}

\* A quads url names a page of the listing: its number in the continuation
\* chain and the number of catalog entries the pages before it hold.  The
\* server answers it with the next n entries (a page may be empty) and, unless
\* the page is the last one, the _next link to the following page.
None == [page |-> 0, from |-> 0]
quads_url == [page |-> 1, from |-> 0]

\* ------------------------------------------------------------------ state
VARIABLES
    catalog,    \* the tile entries the catalog holds for the area
    sameFS,     \* the temporary directory is on the download filesystem
    run,        \* which start of the process this is
    prev,       \* how the start before this one ended, "none" when it ran to
                \* its end and for the first start
    faults,     \* failures and terminations injected so far
    pc,         \* position of the process
    err,        \* how the process ended: "none", an exception name, "SIGKILL"
    inv, win,   \* loop variables: inventory and window (1 = pre, 2 = post)
    area_bbox,  \* the inventory whose bounding box area_bbox holds, 0 unbound
    mosaics,    \* outcome of the mosaic lookup of this window
    quads,      \* outcome of the tile listing of this window
    url,        \* page to request next, or None
    params,     \* query parameters of the next quad request: the inventory
                \* whose bbox they hold, or NoParams
    items,      \* accumulated tile entries
    idx,        \* position of the tile loop in items
    tmp_file,   \* the name tmp_file: "unbound" or "bound"
    tmp,        \* the file tmp_file names: "none", "empty", "partial", "full"
    files,      \* files[i][w][t]: <tile>_<tag>.tiff: "absent", "partial", "full"
    dirs,       \* dirs[i][w]: <tag>_quads exists
    merged,     \* merged[i][w]: <tag>_merged.tif, [st, src]
    dtm,        \* dtm[i]: dtm.tif exists
    npages,     \* pages the server has served of the listing in progress
    reqs,       \* quad requests issued by the listing in progress
    sent,       \* query parameters carried by each of them
    xfers,      \* tile transfers issued for this window
    tfail,      \* tiles of this window whose download failed
    pass0,      \* files of this window when the window was started
    dir0,       \* whether its quad directory existed then
    ropen,      \* tile rasters opened by the current merge_quads call
    rwrite,     \* raster writes performed by the current merge_quads call
    dates,      \* event dates given to the window derivation
    out         \* what the two scripts derived from dates

env == <<catalog, sameFS>>
proc == <<pc, err, inv, win, area_bbox, mosaics, quads, url, params, items, idx, tmp_file>>
disk == <<tmp, files, dirs, merged, dtm>>
ghost == <<npages, reqs, sent, xfers, tfail, pass0, dir0, ropen, rwrite>>
wvars == <<dates, out>>
vars == <<env, run, prev, faults, proc, disk, ghost, wvars>>

\* params = None.
NoParams == 0

NoMerged == [st |-> "absent", src |-> {}]

Fault == faults < MaxFaults /\ faults' = faults + 1
NoFault == faults' = faults

\* The process ends: with an uncaught exception, by termination, or normally.
\* Its local variables are gone.
End(e) ==
    /\ pc' = "end"
    /\ err' = e
    /\ area_bbox' = 0
    /\ mosaics' = "none" /\ quads' = "none" /\ url' = None /\ params' = NoParams
    /\ items' = <<>> /\ idx' = 0 /\ tmp_file' = "unbound"

Init ==
    /\ catalog \in Catalogs
    /\ sameFS \in BOOLEAN
    /\ run = 1 /\ prev = "none" /\ faults = 0
    /\ pc = "bbox" /\ err = "none" /\ inv = 1 /\ win = 1
    /\ area_bbox = 0
    /\ mosaics = "none" /\ quads = "none" /\ url = None /\ params = NoParams
    /\ items = <<>> /\ idx = 0 /\ tmp_file = "unbound"
    /\ tmp = "none"
    /\ files = [i \in Invs |-> [w \in Wins |-> [t \in Tiles |-> "absent"]]]
    /\ dirs = [i \in Invs |-> [w \in Wins |-> FALSE]]
    /\ merged = [i \in Invs |-> [w \in Wins |-> NoMerged]]
    /\ dtm = [i \in Invs |-> FALSE]
    /\ npages = 0 /\ reqs = 0 /\ sent = <<>> /\ xfers = 0 /\ tfail = 0
    /\ pass0 = [t \in Tiles |-> "absent"] /\ dir0 = FALSE
    /\ ropen = 0 /\ rwrite = 0
    /\ dates = <<>> /\ out = <<>>

\* ------------------------------------------------------- download_basemaps
\* Line 119: shapefile_to_bbox(inv), outside any try.
shapefile_to_bbox ==
    /\ pc = "bbox"
    /\ \/ /\ NoFault
          /\ area_bbox' = inv
          /\ pc' = "lookup"
          /\ UNCHANGED <<err, inv, win, mosaics, quads, url, params, items, idx,
                         tmp_file>>
       \/ /\ Fault
          /\ End("DataSourceError")
          /\ UNCHANGED <<inv, win>>
    /\ UNCHANGED <<env, run, prev, disk, ghost, wvars>>

\* A lookup that goes on to the listing when no mosaic matched.
resolve_mosaic_no_continue ==
    /\ pc = "lookup"
    /\ \/ /\ NoFault
          /\ mosaics' = "found"
       \/ /\ Fault
          /\ mosaics' = "empty"
    /\ items' = <<>> /\ params' = area_bbox /\ url' = quads_url
    /\ pc' = "list"
    /\ UNCHANGED <<env, run, prev, err, area_bbox, inv, win, quads, idx, tmp_file, disk, ghost,
                   wvars>>

\* Lines 129-146: the mosaic lookup of the window, and on success the set-up
\* of the pagination loop.  Zero matches and every exception `continue`.
resolve_mosaic ==
    /\ pc = "lookup"
    /\ \/ /\ NoFault
          /\ mosaics' = "found"
          /\ items' = <<>> /\ params' = area_bbox /\ url' = quads_url
          /\ pc' = "list"
       \/ /\ Fault
          /\ mosaics' \in {"empty", "error"}
          /\ pc' = "next"
          /\ UNCHANGED <<items, params, url>>
    /\ UNCHANGED <<env, run, prev, err, area_bbox, inv, win, quads, idx, tmp_file, disk, ghost,
                   wvars>>

\* data.get("items", []) and data.get("_links", {}).get("_next") of the
\* server's answer to url when the page holds n entries.
page_items(n) == SubSeq(catalog, url.from + 1, url.from + n)
page_next(n, last) ==
    IF last THEN None ELSE [page |-> url.page + 1, from |-> url.from + n]

\* A listing that keeps only the page it has just read.
extend_overwrite(acc, page) == page

\* Line 152: items.extend(data.get("items", [])).
extend(acc, page) == acc \o page

\* A request that carries the bounding box whatever params holds.
request_params_bbox == area_bbox

\* Line 149: the query parameters session.get(url, params=params) sends.
request_params == params

\* A listing that, when a request fails, goes on with the items of the pages
\* it has fetched.
list_tiles_keep_fetched ==
    /\ pc = "list"
    /\ reqs' = reqs + 1
    /\ sent' = Append(sent, request_params)
    /\ \/ /\ NoFault
          /\ \E n \in 0..(Len(catalog) - url.from), last \in BOOLEAN :
                /\ last => url.from + n = Len(catalog)
                /\ ~last => url.page < MaxPages
                /\ npages' = url.page
                /\ items' = extend(items, page_items(n))
                /\ params' = NoParams
                /\ url' = page_next(n, last)
          /\ pc' = IF url' # None THEN "list" ELSE "listed"
          /\ quads' = IF url' # None THEN quads ELSE "ok"
       \/ /\ Fault
          /\ quads' = "error"
          /\ pc' = "listed"
          /\ UNCHANGED <<items, params, url, npages>>
    /\ UNCHANGED <<env, run, prev, err, area_bbox, inv, win, mosaics, idx, tmp_file,
                   disk, xfers, tfail, pass0, dir0, ropen, rwrite, wvars>>

\* Lines 148-158 and 163-165: one turn of `while url`.  The request carries
\* params; the page's items are appended, params is cleared and url becomes
\* the page's _next link.  Any exception leaves the loop and `continue`s.
list_tiles ==
    /\ pc = "list"
    /\ reqs' = reqs + 1
    /\ sent' = Append(sent, request_params)
    /\ \/ /\ NoFault
          /\ \E n \in 0..(Len(catalog) - url.from), last \in BOOLEAN :
                /\ last => url.from + n = Len(catalog)
                /\ ~last => url.page < MaxPages
                /\ npages' = url.page
                /\ items' = extend(items, page_items(n))
                /\ params' = NoParams
                /\ url' = page_next(n, last)
          /\ pc' = IF url' # None THEN "list" ELSE "listed"
          /\ quads' = IF url' # None THEN quads ELSE "ok"
       \/ /\ Fault
          /\ quads' = "error"
          /\ pc' = "next"
          /\ UNCHANGED <<items, params, url, npages>>
    /\ UNCHANGED <<env, run, prev, err, area_bbox, inv, win, mosaics, idx, tmp_file, disk,
                   xfers, tfail, pass0, dir0, ropen, rwrite, wvars>>

\* A listing whose quad directory is created before the result is looked at.
after_listing_mkdir_first ==
    /\ pc = "listed"
    /\ dirs' = [dirs EXCEPT ![inv][win] = TRUE]
    /\ IF items = <<>>
       THEN pc' = "next" /\ UNCHANGED idx
       ELSE idx' = 1 /\ pc' = "tile"
    /\ npages' = 0 /\ reqs' = 0 /\ sent' = <<>>
    /\ UNCHANGED <<env, run, prev, faults, err, area_bbox, inv, win, mosaics, quads, url, params,
                   items, tmp_file, tmp, files, merged, dtm, xfers, tfail, pass0,
                   dir0, ropen, rwrite, wvars>>

\* Lines 160-168: an empty result `continue`s; otherwise the quad directory
\* is created and the tile loop starts.  The listing is over.
after_listing ==
    /\ pc = "listed"
    /\ IF items = <<>>
       THEN /\ pc' = "next"
            /\ UNCHANGED <<idx, dirs>>
       ELSE /\ dirs' = [dirs EXCEPT ![inv][win] = TRUE]
            /\ idx' = 1
            /\ pc' = "tile"
    /\ npages' = 0 /\ reqs' = 0 /\ sent' = <<>>
    /\ UNCHANGED <<env, run, prev, faults, err, area_bbox, inv, win, mosaics, quads, url, params,
                   items, tmp_file, tmp, files, merged, dtm, xfers, tfail, pass0,
                   dir0, ropen, rwrite, wvars>>

\* The tile loop moves on to the next entry, or the window is finished.
NextTile ==
    /\ idx' = idx + 1
    /\ pc' = IF idx + 1 > Len(items) THEN "next" ELSE "tile"

\* Lines 178-181: the handler of a failed download.  It reads tmp_file, which
\* is unbound when no NamedTemporaryFile() has succeeded in this call yet, and
\* removes the file it names when that file exists.
Handler ==
    /\ tfail' = tfail + 1
    /\ IF tmp_file = "unbound"
       THEN /\ End("UnboundLocalError")
            /\ UNCHANGED tmp
       ELSE /\ tmp' = "none"
            /\ NextTile
            /\ UNCHANGED <<err, area_bbox, mosaics, quads, url, params, items, tmp_file>>

\* A tile loop that never finds the target path.
exists_never(i, w, t) == FALSE

\* Line 173: filename.exists() for tile t of window (i, w).
exists(i, w, t) == files[i][w][t] # "absent"

\* Lines 170-175: head of the tile loop.  The download link is read outside
\* the try; an existing target path skips the tile; otherwise the temporary
\* file is created.
tile_head ==
    /\ pc = "tile"
    /\ LET t == items[idx] IN
       \/ /\ Fault                          \* quad["_links"]["download"] raises
          /\ tfail' = tfail + 1
          /\ End("KeyError")
          /\ UNCHANGED tmp
       \/ /\ NoFault
          /\ exists(inv, win, t)
          /\ NextTile
          /\ UNCHANGED <<err, area_bbox, mosaics, quads, url, params, items, tmp_file, tmp,
                         tfail>>
       \/ /\ NoFault
          /\ ~exists(inv, win, t)
          /\ tmp_file' = "bound" /\ tmp' = "empty"
          /\ pc' = "xfer"
          /\ UNCHANGED <<err, area_bbox, mosaics, quads, url, params, items, idx, tfail>>
       \/ /\ Fault                          \* NamedTemporaryFile() raises
          /\ ~exists(inv, win, t)
          /\ Handler
    /\ UNCHANGED <<env, run, prev, inv, win, files, dirs, merged, dtm, npages, reqs,
                   sent, xfers, pass0, dir0, ropen, rwrite, wvars>>

\* Line 176: urlretrieve into the temporary file.
tile_transfer ==
    /\ pc = "xfer"
    /\ xfers' = xfers + 1
    /\ \/ /\ NoFault
          /\ tmp' = "full"
          /\ pc' = "move"
          /\ UNCHANGED <<err, area_bbox, mosaics, quads, url, params, items, idx, tmp_file,
                         tfail>>
       \/ /\ Fault
          /\ Handler
    /\ UNCHANGED <<env, run, prev, inv, win, files, dirs, merged, dtm, npages, reqs,
                   sent, pass0, dir0, ropen, rwrite, wvars>>

\* shutil.move: a rename on one filesystem; across filesystems a copy to the
\* target followed by the removal of the source.  What a failed move leaves at
\* the target.
MoveLeaves == IF sameFS THEN {"absent"} ELSE {"absent", "partial"}

\* Line 177: shutil.move(tmp_file.name, filename).
tile_move ==
    /\ pc = "move"
    /\ LET t == items[idx] IN
       \/ /\ NoFault
          /\ files' = [files EXCEPT ![inv][win][t] = "full"]
          /\ tmp' = "none"
          /\ NextTile
          /\ UNCHANGED <<err, area_bbox, mosaics, quads, url, params, items, tmp_file,
                         tfail>>
       \/ /\ Fault
          /\ \E left \in MoveLeaves :
                files' = [files EXCEPT ![inv][win][t] = left]
          /\ Handler
    /\ UNCHANGED <<env, run, prev, inv, win, dirs, merged, dtm, npages, reqs, sent,
                   xfers, pass0, dir0, ropen, rwrite, wvars>>

\* Lines 111 and 122: the window loop and the inventory loop move on; after
\* the last window download_basemaps returns and __main__ starts merging.
next_window ==
    /\ pc = "next"
    /\ IF win = 1
       THEN /\ win' = 2 /\ inv' = inv /\ pc' = "lookup"
            /\ UNCHANGED <<tmp_file, area_bbox>>
       ELSE IF inv < NInv
            THEN /\ win' = 1 /\ inv' = inv + 1 /\ pc' = "bbox"
                 /\ UNCHANGED <<tmp_file, area_bbox>>
            ELSE /\ win' = 1 /\ inv' = 1 /\ pc' = "merge"
                 /\ tmp_file' = "unbound" /\ area_bbox' = 0
    /\ mosaics' = "none" /\ quads' = "none" /\ url' = None /\ params' = NoParams
    /\ items' = <<>> /\ idx' = 0
    /\ npages' = 0 /\ reqs' = 0 /\ sent' = <<>> /\ xfers' = 0 /\ tfail' = 0
    /\ pass0' = files[inv'][win'] /\ dir0' = dirs[inv'][win']
    /\ UNCHANGED <<env, run, prev, faults, err, disk, ropen, rwrite, wvars>>

\* ------------------------------------------------------------- merge_quads
\* input_dir.glob("*.tiff"): the tile files present in the quad directory.
tiff_files(i, w) == {t \in Tiles : files[i][w][t] # "absent"}

\* A merge that never finds its output.
output_exists_never(i, w) == FALSE

\* Line 81: output_path.exists().
output_exists(i, w) == merged[i][w].st # "absent"

\* Lines 76-99 and the open of line 101: an existing output returns at once;
\* otherwise every tile raster is opened and merged, and the output file is
\* created at its final path.  An empty list raises at line 88 or 90.  A
\* truncated tile may or may not be readable.
merge_quads ==
    /\ pc = "merge"
    /\ IF output_exists(inv, win)
       THEN /\ NoFault
            /\ pc' = "mnext"
            /\ ropen' = 0 /\ rwrite' = 0
            /\ UNCHANGED <<err, area_bbox, mosaics, quads, url, params, items, idx,
                           tmp_file, merged>>
       ELSE LET tiffs == tiff_files(inv, win) IN
            /\ ropen' = Cardinality(tiffs) /\ rwrite' = 0
            /\ IF tiffs = {}
               THEN /\ NoFault
                    /\ End("IndexError")
                    /\ UNCHANGED merged
               ELSE \/ /\ NoFault
                       /\ merged' = [merged EXCEPT ![inv][win] =
                                        [st |-> "partial", src |-> tiffs]]
                       /\ pc' = "write"
                       /\ UNCHANGED <<err, area_bbox, mosaics, quads, url, params, items,
                                      idx, tmp_file>>
                    \/ /\ IF \E t \in tiffs : files[inv][win][t] = "partial"
                          THEN NoFault ELSE Fault
                       /\ End("RasterioIOError")
                       /\ UNCHANGED merged
    /\ UNCHANGED <<env, run, prev, inv, win, tmp, files, dirs, dtm, npages, reqs, sent,
                   xfers, tfail, pass0, dir0, wvars>>

\* Lines 101-107: dest.write(mosaic) into the file opened at the final path.
merge_write ==
    /\ pc = "write"
    /\ rwrite' = rwrite + 1
    /\ \/ /\ NoFault
          /\ merged' = [merged EXCEPT ![inv][win].st = "full"]
          /\ pc' = "mnext"
          /\ UNCHANGED <<err, area_bbox, mosaics, quads, url, params, items, idx, tmp_file>>
       \/ /\ Fault
          /\ End("RasterioIOError")
          /\ UNCHANGED merged
    /\ UNCHANGED <<env, run, prev, inv, win, tmp, files, dirs, dtm, npages, reqs, sent,
                   xfers, tfail, pass0, dir0, ropen, wvars>>

\* Lines 215-218: after "pre" comes "post", after "post" download_dtm.
merge_next ==
    /\ pc = "mnext"
    /\ IF win = 1 THEN win' = 2 /\ pc' = "merge" ELSE win' = win /\ pc' = "dtm"
    /\ ropen' = 0 /\ rwrite' = 0
    /\ UNCHANGED <<env, run, prev, faults, err, area_bbox, inv, mosaics, quads, url, params, items,
                   idx, tmp_file, disk, npages, reqs, sent, xfers, tfail, pass0,
                   dir0, wvars>>

\* Line 213: the inventory loop of __main__ moves on, or the script ends.
NextInventory ==
    IF inv < NInv
    THEN /\ inv' = inv + 1 /\ win' = 1 /\ pc' = "merge"
         /\ UNCHANGED <<err, area_bbox, mosaics, quads, url, params, items, idx, tmp_file>>
    ELSE /\ End("none")
         /\ UNCHANGED <<inv, win>>

\* Lines 191-207: download_dtm.  An existing dtm.tif returns at once; otherwise
\* pre_merged.tif is opened for its bounds and the elevation service is called.
download_dtm ==
    /\ pc = "dtm"
    /\ IF dtm[inv]
       THEN /\ NoFault
            /\ NextInventory
            /\ UNCHANGED dtm
       ELSE \/ /\ merged[inv][1].st # "absent"
               /\ NoFault
               /\ dtm' = [dtm EXCEPT ![inv] = TRUE]
               /\ NextInventory
            \/ /\ merged[inv][1].st # "full"
               /\ NoFault
               /\ End("RasterioIOError")
               /\ UNCHANGED <<inv, win, dtm>>
            \/ /\ merged[inv][1].st # "absent"
               /\ Fault
               /\ End("CalledProcessError")
               /\ UNCHANGED <<inv, win, dtm>>
    /\ UNCHANGED <<env, run, prev, tmp, files, dirs, merged, ghost, wvars>>

\* ------------------------------------------------------------- the process
\* The process is terminated.  A cross-filesystem move that was copying leaves
\* what it had written at the target.
Terminate ==
    /\ pc # "end"
    /\ Fault
    /\ End("SIGKILL")
    /\ IF pc = "move"
       THEN \E left \in MoveLeaves :
               files' = [files EXCEPT ![inv][win][items[idx]] = left]
       ELSE UNCHANGED files
    /\ UNCHANGED <<env, run, prev, inv, win, tmp, dirs, merged, dtm, ghost, wvars>>

\* __main__ is started again on the same disk.
Rerun ==
    /\ pc = "end"
    /\ run < MaxRuns
    /\ run' = run + 1
    /\ prev' = err
    /\ pc' = "bbox" /\ err' = "none" /\ inv' = 1 /\ win' = 1
    /\ tmp' = "none"
    /\ npages' = 0 /\ reqs' = 0 /\ sent' = <<>> /\ xfers' = 0 /\ tfail' = 0
    /\ pass0' = files[1][1] /\ dir0' = dirs[1][1]
    /\ ropen' = 0 /\ rwrite' = 0
    /\ UNCHANGED <<env, faults, area_bbox, mosaics, quads, url, params, items,
                   idx, tmp_file, files, dirs, merged, dtm, wvars>>

Next ==
    \/ shapefile_to_bbox
    \/ resolve_mosaic
    \/ list_tiles
    \/ after_listing
    \/ tile_head
    \/ tile_transfer
    \/ tile_move
    \/ next_window
    \/ merge_quads
    \/ merge_write
    \/ merge_next
    \/ download_dtm
    \/ Terminate
    \/ Rerun

Spec == Init /\ [][Next]_vars

\* ------------------------------------------------ window derivation alone
Years == FirstYear..LastYear
Dates == [year : Years, month : 1..12]

Before(a, b) == a.year < b.year \/ (a.year = b.year /\ a.month <= b.month)

\* Non-empty ascending date lists.
DateLists ==
    {ds \in UNION {[1..n -> Dates] : n \in 1..MaxDates} :
        \A k \in 1..(Len(ds) - 1) : Before(ds[k], ds[k + 1])}

InitWin ==
    /\ catalog = <<>>
    /\ sameFS = TRUE
    /\ run = 1 /\ prev = "none" /\ faults = 0
    /\ pc = "bbox" /\ err = "none" /\ inv = 1 /\ win = 1
    /\ area_bbox = 0
    /\ mosaics = "none" /\ quads = "none" /\ url = None /\ params = NoParams
    /\ items = <<>> /\ idx = 0 /\ tmp_file = "unbound"
    /\ tmp = "none"
    /\ files = [i \in Invs |-> [w \in Wins |-> [t \in Tiles |-> "absent"]]]
    /\ dirs = [i \in Invs |-> [w \in Wins |-> FALSE]]
    /\ merged = [i \in Invs |-> [w \in Wins |-> NoMerged]]
    /\ dtm = [i \in Invs |-> FALSE]
    /\ npages = 0 /\ reqs = 0 /\ sent = <<>> /\ xfers = 0 /\ tfail = 0
    /\ pass0 = [t \in Tiles |-> "absent"] /\ dir0 = FALSE
    /\ ropen = 0 /\ rwrite = 0
    /\ dates \in DateLists
    /\ out = [basemaps |-> <<>>, mosaics |-> <<>>]

\* basemaps_download.py derives the windows of dates.
derive_basemaps ==
    /\ out.basemaps = <<>>
    /\ out' = [out EXCEPT !.basemaps = <<windows(dates)>>]
    /\ UNCHANGED <<env, run, prev, faults, proc, disk, ghost, dates>>

\* mosaics_download.py derives the windows of dates.
derive_mosaics ==
    /\ out.mosaics = <<>>
    /\ out' = [out EXCEPT !.mosaics = <<windows_str(dates)>>]
    /\ UNCHANGED <<env, run, prev, faults, proc, disk, ghost, dates>>

NextWin == derive_basemaps \/ derive_mosaics

SpecWin == InitWin /\ [][NextWin]_vars

\* ================================================================ claims
Range(f) == {f[k] : k \in DOMAIN f}
InTileLoop == pc \in {"tile", "xfer", "move"}

\* C1: when the listing loop has ended without a failed request, it has
\* issued exactly as many quad requests as the chain has pages, and the
\* accumulated items are the pages' entries in page order, which are the
\* catalog's entries: nothing dropped, duplicated or reordered.
C1_Pagination ==
    pc = "listed" => (quads = "ok" /\ reqs = npages /\ items = catalog)

\* A chain of three pages holding two entries has been listed.
C1_Witness ==
    pc = "listed" /\ npages = 3 /\ reqs = 3 /\ Len(items) = 2 /\ items[1] # items[2]

\* C2: a transfer is issued only for a target path that does not exist; and
\* in a pass that started with every listed tile present (whatever its
\* content, and also when an id repeats) no transfer is issued and the
\* window's files stay as they were.
C2_Idempotent ==
    /\ pc \in {"xfer", "move"} => files[inv][win][items[idx]] = "absent"
    /\ (/\ InTileLoop \/ (pc = "next" /\ quads = "ok")
        /\ \A k \in 1..Len(items) : pass0[items[k]] # "absent")
       => (xfers = 0 /\ files[inv][win] = pass0 /\ pc \in {"tile", "next"})

\* The second run has finished the tile loop of a window whose two tiles the
\* first run downloaded.
C2_Witness ==
    /\ run = 2 /\ pc = "next" /\ quads = "ok" /\ Len(items) = 2
    /\ \A k \in 1..Len(items) : pass0[items[k]] = "full"
    /\ xfers = 0

\* C3 (as claimed): no file at a tile's final path is ever incomplete.
C3_NoPartialTile ==
    \A i \in Invs, w \in Wins, t \in Tiles : files[i][w][t] # "partial"

\* C4 (as claimed): when the download of exactly one tile of the window has
\* failed, the process has not been ended by it, and at the end of the tile
\* loop every other listed tile is on disk.
C4_Isolation ==
    tfail = 1 =>
        /\ ~(pc = "end" /\ err \in {"KeyError", "UnboundLocalError"})
        /\ pc = "next" =>
              Cardinality({t \in Range(items) : files[inv][win][t] = "absent"}) <= 1

\* Months counted from year 0.
MonthIndex(m, y) == 12 * y + (m - 1)

RECURSIVE Value(_)
Value(ds) ==
    IF ds = <<>> THEN 0
    ELSE 10 * Value(SubSeq(ds, 1, Len(ds) - 1))
         + (CHOOSE d \in 0..9 : Digit[d + 1] = ds[Len(ds)])

\* name reads global_monthly_<year>_<month as 2 digits>_mosaic.
Names(name, m, y) ==
    /\ Len(name) >= 6
    /\ name[1] = "global_monthly_" /\ name[Len(name)] = "_mosaic"
    /\ name[Len(name) - 3] = "_"
    /\ \A k \in 2..(Len(name) - 1) :
          k # Len(name) - 3 => name[k] \in Range(Digit)
    /\ Value(SubSeq(name, Len(name) - 2, Len(name) - 1)) = m
    /\ Value(SubSeq(name, 2, Len(name) - 4)) = y
    /\ name[2] # "0"

August2018 == [year |-> 2018, month |-> 8]

\* C5: basemaps_download.py derives from a non-empty ascending date list the
\* month before its first date and the month after its last date, each a
\* month of 1..12 with the year rolled over at the ends, and requests the
\* mosaics named global_monthly_<year>_<month as 2 digits>_mosaic;
\* mosaics_download.py derives the same names.
C5_Windows ==
    /\ out.basemaps # <<>> =>
          LET r == out.basemaps[1]
              first == dates[1]
              last == dates[Len(dates)]
          IN  /\ r.pre[1] \in 1..12 /\ r.post[1] \in 1..12
              /\ MonthIndex(r.pre[1], r.pre[2])
                    = MonthIndex(first.month, first.year) - 1
              /\ MonthIndex(r.post[1], r.post[2])
                    = MonthIndex(last.month, last.year) + 1
              /\ Names(r.names[1], r.pre[1], r.pre[2])
              /\ Names(r.names[2], r.post[1], r.post[2])
              /\ dates = <<August2018, August2018>> =>
                    /\ r.pre = <<7, 2018>> /\ r.post = <<9, 2018>>
                    /\ r.names[1] = <<"global_monthly_", "2", "0", "1", "8", "_",
                                      "0", "7", "_mosaic">>
              /\ dates = <<[year |-> 2022, month |-> 9]>> =>
                    r.pre = <<8, 2022>> /\ r.post = <<10, 2022>>
              /\ last.month = 12 => r.post = <<1, last.year + 1>>
    /\ (out.basemaps # <<>> /\ out.mosaics # <<>>) =>
          out.mosaics[1].names = out.basemaps[1].names

\* Both scripts have derived the windows of a list that ends in a December.
C5_Witness ==
    /\ Len(dates) = 2 /\ dates[1].month = 8 /\ dates[2].month = 12
    /\ out.basemaps # <<>> /\ out.mosaics # <<>>
    /\ out.basemaps[1].post[1] = 1

\* C6: a mosaic lookup that found nothing or failed is followed by no quad
\* request and no tile transfer for its window, changes no file of it, and
\* leaves the process at the end of the window's turn of the loop, from where
\* the next window or inventory is taken up.
C6_LookupSoft ==
    mosaics \in {"empty", "error"} =>
        /\ pc = "next" /\ err = "none"
        /\ reqs = 0 /\ xfers = 0
        /\ files[inv][win] = pass0 /\ dirs[inv][win] = dir0
        /\ ENABLED next_window

\* The lookup of the first inventory's pre window has failed.
C6_Witness == mosaics = "error" /\ pc = "next" /\ inv = 1 /\ win = 1

\* C7: when the first quad request failed, or the listing ended with no
\* entries, no tile is downloaded and no quad directory is created for the
\* window, and the loop moves on to the next window.
C7_ListSoft ==
    (\/ quads = "error" /\ reqs = 1
     \/ quads = "ok" /\ items = <<>>) =>
        /\ pc \in {"listed", "next"} /\ err = "none"
        /\ xfers = 0
        /\ files[inv][win] = pass0 /\ dirs[inv][win] = dir0
        /\ pc = "next" => ENABLED next_window

\* The first quad request of a window has failed.
C7_Witness == quads = "error" /\ reqs = 1 /\ pc = "next" /\ ~dirs[inv][win]

\* C8: a merge_quads call that finds its output opens no tile raster, writes
\* nothing and leaves the merged file and every tile file as they were.
C8_MergeIdempotent ==
    [][(pc = "merge" /\ merged[inv][win].st # "absent") =>
          /\ pc' \in {"mnext", "end"}
          /\ ropen' = 0 /\ rwrite' = 0
          /\ merged' = merged /\ files' = files]_vars

\* The second run's merge_quads has returned without a read or write from an
\* output the first run wrote.
C8_Witness ==
    /\ run = 2 /\ pc = "mnext" /\ ropen = 0 /\ rwrite = 0
    /\ merged[inv][win].st = "full"

\* C9 (as claimed): outside the write in progress no incomplete file is at a
\* merged path.
C9_NoPartialMerged ==
    \A i \in Invs, w \in Wins :
        merged[i][w].st = "partial" => (pc = "write" /\ i = inv /\ w = win)

\* C10 (as claimed): merge_quads on a window without tile files raises
\* nothing.
C10_EmptyMergeNotFatal == ~(pc = "end" /\ err = "IndexError")

\* What one uninterrupted run without failures leaves on disk: every tile of
\* the catalog complete in each window, and each window's merged raster
\* complete and built from all of them.
Uninterrupted ==
    \A i \in Invs, w \in Wins :
        /\ files[i][w] =
              [t \in Tiles |-> IF t \in Range(catalog) THEN "full" ELSE "absent"]
        /\ merged[i][w] = [st |-> "full", src |-> Range(catalog)]

\* C11 (as claimed): when the only failure was the termination of the start
\* before this one, and this start has run to its end, the tile files and
\* merged rasters on disk are those of one uninterrupted run.
C11_Resumable ==
    (run > 1 /\ prev = "SIGKILL" /\ faults = 1 /\ pc = "end" /\ err = "none")
        => Uninterrupted

\* C12 (as claimed): a failed read of an inventory's study area does not end
\* the process while inventories remain after it.
C12_GeometrySkipsInventory ==
    ~(pc = "end" /\ err = "DataSourceError" /\ inv < NInv)

\* C13 (as claimed): a merge_quads call that could not open a tile, and so
\* wrote nothing, does not end the process while a window remains to merge.
C13_MergeSoft ==
    ~(/\ pc = "end" /\ err = "RasterioIOError"
      /\ ropen > 0 /\ rwrite = 0 /\ merged[inv][win].st = "absent"
      /\ (win = 1 \/ inv < NInv))

\* C14 (as claimed): with tiles in the catalog, the process is never ended by
\* an exception that comes from a tile download (KeyError, UnboundLocalError)
\* or from a window that lookup, listing or download failures left without
\* tiles (IndexError).
C14_RunsToEnd ==
    (pc = "end" /\ catalog # <<>>)
        => err \notin {"KeyError", "UnboundLocalError", "IndexError"}

\* C15 (as claimed): when the only failure of the first run is that of the
\* elevation service in download_dtm, every window that has tiles has its
\* complete merged raster, as in the run where the service answers.
C15_DtmBestEffort ==
    (run = 1 /\ faults = 1 /\ pc = "end" /\ err = "CalledProcessError")
        => \A i \in Invs, w \in Wins :
              tiff_files(i, w) # {} => merged[i][w].st = "full"

\* The month operations as specified.
previousMonth(month, year) ==
    IF month = 1 THEN <<12, year - 1>> ELSE <<month - 1, year>>
nextMonth(month, year) ==
    IF month = 12 THEN <<1, year + 1>> ELSE <<month + 1, year>>

\* s is the decimal writing of n in exactly width characters.
Writes(s, n, width) ==
    Len(s) = width /\ (\A k \in 1..Len(s) : s[k] \in Range(Digit)) /\ Value(s) = n

\* C16: for every month of 1..12 and every year of the inventories,
\* get_previous_month and get_next_month return what previousMonth and
\* nextMonth specify, with the month in 1..12; the versions of
\* mosaics_download.py return the same month written in two digits and the
\* same year written in decimal.
C16_MonthOps ==
    LET first == dates[1]
        last == dates[Len(dates)]
        p == previousMonth(first.month, first.year)
        n == nextMonth(last.month, last.year)
    IN  /\ out.basemaps # <<>> =>
              /\ out.basemaps[1].pre = p /\ out.basemaps[1].post = n
              /\ p[1] \in 1..12 /\ n[1] \in 1..12
        /\ out.mosaics # <<>> =>
              /\ Writes(out.mosaics[1].pre[1], p[1], 2)
              /\ Writes(out.mosaics[1].post[1], n[1], 2)
              /\ Writes(out.mosaics[1].pre[2], p[2], 4)
              /\ Writes(out.mosaics[1].post[2], n[2], 4)

\* Both scripts have taken the month before a January and the month after a
\* December.
C16_Witness ==
    /\ out.basemaps # <<>> /\ out.mosaics # <<>>
    /\ dates[1].month = 1 /\ dates[Len(dates)].month = 12
    /\ out.mosaics[1].pre[1] = <<"1", "2">> /\ out.mosaics[1].post[1] = <<"0", "1">>

\* C17: the month after the month before a date's month, and the month
\* before the month after it, are the date's own month and year, across the
\* turn of the year too: the month before 1/2020 is 12/2019 and the month
\* after 12/2019 is 1/2020.
C17_RoundTrip ==
    out.basemaps # <<>> =>
        LET r == out.basemaps[1]
            first == dates[1]
            last == dates[Len(dates)]
        IN  /\ get_next_month(r.pre[1], r.pre[2]) = <<first.month, first.year>>
            /\ get_previous_month(r.post[1], r.post[2])
                  = <<last.month, last.year>>
            /\ first = [year |-> 2020, month |-> 1] => r.pre = <<12, 2019>>
            /\ last = [year |-> 2019, month |-> 12] => r.post = <<1, 2020>>

\* The windows of a list from a January 2020 to a December have been derived.
C17_Witness ==
    /\ out.basemaps # <<>>
    /\ dates[1] = [year |-> 2020, month |-> 1] /\ dates[Len(dates)].month = 12
    /\ out.basemaps[1].pre = <<12, 2019>> /\ out.basemaps[1].post[1] = 1

\* C18: of the quad requests of a window's listing, the first carries the
\* bounding box of the window's inventory and every later one carries no
\* query parameters; a listing about to issue its first request holds that
\* inventory's bounding box in params.
C18_BboxFirstOnly ==
    /\ Len(sent) = reqs
    /\ \A k \in 1..Len(sent) : sent[k] = IF k = 1 THEN inv ELSE NoParams
    /\ (pc = "list" /\ reqs = 0) => params = inv

\* The listing of the second inventory's post window has issued three
\* requests.
C18_Witness ==
    /\ inv = 2 /\ win = 2 /\ pc = "listed"
    /\ sent = <<2, NoParams, NoParams>>

\* C19 (as claimed): after the tile loop of a window no temporary file is
\* left, and the handler of a failed download raises nothing.
C19_TempCleanup ==
    /\ pc = "next" => tmp = "none"
    /\ ~(pc = "end" /\ err = "UnboundLocalError")

\* C20: when a request of the listing has failed, on the first page or a
\* later one, the window's turn is over with no tile transferred and no file
\* or directory of it changed, whatever items the earlier pages gave; the tile
\* loop runs only on the items of a whole chain that is not empty.
C20_ListAllOrNothing ==
    /\ quads = "error" =>
          /\ pc = "next" /\ err = "none"
          /\ xfers = 0
          /\ files[inv][win] = pass0 /\ dirs[inv][win] = dir0
          /\ ENABLED next_window
    /\ (InTileLoop \/ (pc = "next" /\ xfers > 0)) =>
          (quads = "ok" /\ items = catalog /\ items # <<>>)

\* The second request of a listing has failed after the first page gave an
\* item.
C20_Witness ==
    /\ quads = "error" /\ pc = "next" /\ reqs = 2 /\ Len(items) = 1 /\ xfers = 0

\* C21 (as claimed): when a run has reached its end, every run before it
\* having reached its end too, each merged raster on disk was built from
\* exactly the tile files now in its window's quad directory.
C21_MergedCoversTiles ==
    (pc = "end" /\ err = "none" /\ prev = "none") =>
        \A i \in Invs, w \in Wins :
            merged[i][w].st # "absent" => merged[i][w].src = tiff_files(i, w)

====
